---- MODULE Spec2Model ----
(***************************************************************************)
(* Model of the SimpleAssetLibrary blueprint function library             *)
(* (SimpleAssetLibraryBPLibrary.cpp): RegisterMetadataTags,                *)
(* AddExistingAssetThumbnailToDynamicMaterial and                          *)
(* RenderAssetThumbnailToDynamicMaterial, together with the engine state   *)
(* they read: the packages on disk, the thumbnail the generator produces,  *)
(* the thumbnail stored in the package, and whether a transient texture    *)
(* can be allocated.                                                       *)
(***************************************************************************)
EXTENDS Integers, Sequences, FiniteSets

\* Largest image dimension of the model; dimensions range over -1..MaxDim.
MaxDim == 2
\* Longest tag list handed to RegisterMetadataTags.
MaxTags == 2

NULL == [kind |-> "nullptr"]

\* int32 values GetImageWidth()/GetImageHeight() of a generated thumbnail may return.
DimValues == -1 .. MaxDim
\* Dimensions of a thumbnail stored in a package.
StoredDims == 1 .. MaxDim
\* Values the caller's ImageWidth/ImageHeight variables hold before a call:
\* zero-initialised, or left over from an earlier call.
PriorValues == {0, MaxDim}

\* FObjectThumbnail values.
GeneratedThumbnails == {[kind |-> "thumb", w |-> w, h |-> h] : w \in DimValues, h \in DimValues}
StoredThumbnails == {[kind |-> "thumb", w |-> w, h |-> h] : w \in StoredDims, h \in StoredDims}

\* FAssetData values: an asset without a package, and an asset of package /Game/A.
PackageNames == {"/Game/A"}
AssetDatas == {[PackageName |-> n] : n \in PackageNames \cup {"None"}}

\* The caller's default texture.
DefaultTextures == {[kind |-> "Default", w |-> MaxDim, h |-> MaxDim]}

\* FName values used as metadata tags.
TagNames == {"None", "Author", "Version"}

VARIABLES
    disk,           \* package names FPackageName::DoesPackageExist finds
    generated,      \* what GenerateThumbnailForObjectToSaveToDisk returns for the asset
    stored,         \* the thumbnail LoadThumbnailsFromPackage finds for the asset, or NULL
    allocOK,        \* whether UTexture2D::CreateTransient returns a texture
    GlobalTagsForAssetRegistry,
    texture,        \* the "texture" parameter of the dynamic material
    ImageWidth, ImageHeight, IsValid,   \* the caller's variables behind the reference parameters
    crashed,        \* the editor process has died
    call,           \* the last call: its operation, arguments and what it did
    prevRender      \* the Render call before the last one, under the same engine state

vars == <<disk, generated, stored, allocOK, GlobalTagsForAssetRegistry, texture,
          ImageWidth, ImageHeight, IsValid, crashed, call, prevRender>>

engine == <<disk, generated, stored, allocOK>>

NoCall == [op |-> "none"]

----------------------------------------------------------------------------
(* RegisterMetadataTags *)

\* The loop body without the IsNone test.
RegisterTagAnyName(Tags, Tag) ==
    IF Tag \notin Tags THEN Tags \cup {Tag} ELSE Tags

\* One iteration of the loop over Tags.
RegisterTag(Tags, Tag) ==
    IF Tag # "None"
    THEN IF Tag \notin Tags THEN Tags \cup {Tag} ELSE Tags
    ELSE Tags

RECURSIVE RegisterTags(_, _)
RegisterTags(Tags, list) ==
    IF list = <<>> THEN Tags
    ELSE RegisterTags(RegisterTag(Tags, Head(list)), Tail(list))

TagLists == UNION {[1..n -> TagNames] : n \in 0..MaxTags}

RegisterMetadataTags ==
    /\ ~crashed
    /\ \E Tags \in TagLists :
        /\ GlobalTagsForAssetRegistry' = RegisterTags(GlobalTagsForAssetRegistry, Tags)
        /\ call' = [op |-> "RegisterMetadataTags", Tags |-> Tags,
                    before |-> GlobalTagsForAssetRegistry]
    /\ UNCHANGED <<engine, texture, ImageWidth, ImageHeight, IsValid, crashed, prevRender>>

----------------------------------------------------------------------------
(* Engine collaborators, read from the engine state *)

\* AssetData.PackageName.ToString() != "None" && FPackageName::DoesPackageExist(...)
PackageExists(AssetData) ==
    AssetData.PackageName # "None" /\ AssetData.PackageName \in disk

\* ThumbnailTools::GenerateThumbnailForObjectToSaveToDisk(AssetData.GetAsset())
GenerateThumbnail(AssetData) == generated

\* UTexture2D::CreateTransient(ImageWidth, ImageHeight, PF_B8G8R8A8)
CreateTransient(w, h) ==
    IF allocOK THEN [kind |-> "Generated", w |-> w, h |-> h] ELSE NULL

\* LoadThumbnailsFromPackage followed by ThumbnailMap.Find(ObjectFullName)
FindThumbnail(AssetData) == stored

\* ImageWrapper->SetRaw(..., BGRA, 8) and GetCompressed(): the PNG of the thumbnail
CompressToPNG(Thumbnail, w, h) ==
    [format |-> "PNG", w |-> w, h |-> h]

\* FImageUtils::ImportBufferAsTexture2D(CompressedByteArray)
ImportBufferAsTexture2D(Buffer) ==
    [kind |-> "Cached", w |-> Buffer.w, h |-> Buffer.h]

----------------------------------------------------------------------------
(* The out parameters and the record of a call *)

Locals(w, h, v) == [ImageWidth |-> w, ImageHeight |-> h, IsValid |-> v]

\* What the caller's variables hold when a call starts.
PriorLocals == {Locals(d, d, v) : d \in PriorValues, v \in BOOLEAN}

\* A stage of the fallback chain the call went through, whether the stage
\* succeeded, and the out parameters when the stage was left.
Visit(stage, ok, l) ==
    [stage |-> stage, ok |-> ok,
     ImageWidth |-> l.ImageWidth, ImageHeight |-> l.ImageHeight, IsValid |-> l.IsValid]

\* A return: the out parameters and the texture set on the material.
Return(l, bound, stages) ==
    [out |-> l, bound |-> bound, crashed |-> FALSE, stages |-> stages]

\* GetImageWidth() through a null FObjectThumbnail*: the read of the member
\* faults and the editor process dies before anything is set on the material.
Crash(l, stages) ==
    [out |-> l, bound |-> NULL, crashed |-> TRUE, stages |-> stages]

----------------------------------------------------------------------------
(* The thumbnail stored in the package, shared by both functions *)

\* The body of the `if` that found the package, never writing IsValid.
ExistingThumbnailLeavesIsValid(AssetData, l, setsIsValid, stages) ==
    LET Thumbnail == FindThumbnail(AssetData)
    IN  IF Thumbnail = NULL
        THEN Crash(l, stages \o <<Visit("TryCachedFallback", FALSE, l)>>)
        ELSE LET w == Thumbnail.w
                 h == Thumbnail.h
                 l1 == Locals(w, h, l.IsValid)
                 ThumbnailTexture == ImportBufferAsTexture2D(CompressToPNG(Thumbnail, w, h))
             IN  Return(l1, ThumbnailTexture,
                        stages \o <<Visit("TryCachedFallback", TRUE, l1)>>)

\* The body of the `if` that found the package: the thumbnail of the package
\* is read without a check for nullptr, compressed to PNG, imported and set.
ExistingThumbnail(AssetData, l, setsIsValid, stages) ==
    LET Thumbnail == FindThumbnail(AssetData)
    IN  IF Thumbnail = NULL
        THEN Crash(l, stages \o <<Visit("TryCachedFallback", FALSE, l)>>)
        ELSE LET w == Thumbnail.w
                 h == Thumbnail.h
                 l1 == Locals(w, h, IF setsIsValid THEN TRUE ELSE l.IsValid)
                 ThumbnailTexture == ImportBufferAsTexture2D(CompressToPNG(Thumbnail, w, h))
             IN  Return(l1, ThumbnailTexture,
                        stages \o <<Visit("TryCachedFallback", TRUE, l1)>>)

\* AddExistingAssetThumbnailToDynamicMaterial: IsValid is never written.
AddExisting(AssetData, DefaultTexture, l) ==
    IF PackageExists(AssetData)
    THEN ExistingThumbnail(AssetData, l, FALSE, <<>>)
    ELSE Return(l, DefaultTexture, <<Visit("UseDefault", TRUE, l)>>)

----------------------------------------------------------------------------
(* RenderAssetThumbnailToDynamicMaterial *)

\* "validate the asset exists"
ValidateExists(AssetData, l) ==
    [l EXCEPT !.IsValid = PackageExists(AssetData)]

\* The generation step reading the height into ImageWidth and the width into
\* ImageHeight.
RegenerateSwapsDims(thumb, l) ==
    LET w == IF thumb # NULL THEN thumb.h ELSE 0
        h == IF thumb # NULL THEN thumb.w ELSE 0
    IN  IF w < 1 \/ h < 1
        THEN Locals(1, 1, FALSE)
        ELSE Locals(w, h, l.IsValid)

\* The generation step clamping unusable dimensions without clearing IsValid.
RegenerateKeepsValid(thumb, l) ==
    LET w == IF thumb # NULL THEN thumb.w ELSE 0
        h == IF thumb # NULL THEN thumb.h ELSE 0
    IN  IF w < 1 \/ h < 1
        THEN Locals(1, 1, l.IsValid)
        ELSE Locals(w, h, l.IsValid)

\* "attempt to generate the thumbnail and make sure it's usable"
Regenerate(thumb, l) ==
    LET w == IF thumb # NULL THEN thumb.w ELSE 0
        h == IF thumb # NULL THEN thumb.h ELSE 0
    IN  IF w < 1 \/ h < 1
        THEN Locals(1, 1, FALSE)
        ELSE Locals(w, h, l.IsValid)

\* "Prepare the transient texture"
Allocate(ThumbnailTexture, l) ==
    IF ThumbnailTexture = NULL THEN [l EXCEPT !.IsValid = FALSE] ELSE l

\* The fallback without the stored thumbnail: straight to the default texture.
FallbackSkipsStored(AssetData, DefaultTexture, l, stages) ==
    Return(l, DefaultTexture, stages \o <<Visit("UseDefault", TRUE, l)>>)

\* "try to get the existing default thumbnail", then the final fallback.
Fallback(AssetData, DefaultTexture, l, stages) ==
    IF PackageExists(AssetData)
    THEN ExistingThumbnail(AssetData, l, TRUE, stages)
    ELSE Return(l, DefaultTexture,
                stages \o <<Visit("TryCachedFallback", FALSE, l),
                            Visit("UseDefault", TRUE, l)>>)

\* The generated branch without its `return`: the fallback runs after a
\* populated texture was set.
PopulateFallsThrough(AssetData, DefaultTexture, ThumbnailTexture, l, stages) ==
    Fallback(AssetData, DefaultTexture, l, stages)

\* The generated branch after the transient texture was prepared: populate,
\* set on the material and return, or fall through to the fallback.
Populate(AssetData, DefaultTexture, ThumbnailTexture, l, stages) ==
    IF l.IsValid
    THEN Return(l, ThumbnailTexture, stages)
    ELSE Fallback(AssetData, DefaultTexture, l, stages)

Render(AssetData, DefaultTexture, l) ==
    LET l0 == ValidateExists(AssetData, l)
    IN  IF l0.IsValid
        THEN LET thumb == GenerateThumbnail(AssetData)
                 l1 == Regenerate(thumb, l0)
                 ThumbnailTexture == CreateTransient(l1.ImageWidth, l1.ImageHeight)
                 l2 == Allocate(ThumbnailTexture, l1)
                 stages == <<Visit("TryRegenerate", l1.IsValid, l1),
                             Visit("TryAllocate", ThumbnailTexture # NULL, l2)>>
             IN  Populate(AssetData, DefaultTexture, ThumbnailTexture, l2, stages)
        ELSE Fallback(AssetData, DefaultTexture, l0, <<>>)

----------------------------------------------------------------------------
(* Actions *)

\* The effect of a call's result on the material and the caller's variables.
Apply(r) ==
    /\ crashed' = r.crashed
    /\ texture' = IF r.crashed THEN texture ELSE r.bound
    /\ ImageWidth' = r.out.ImageWidth
    /\ ImageHeight' = r.out.ImageHeight
    /\ IsValid' = r.out.IsValid

CallRecord(op, AssetData, DefaultTexture, r) ==
    [op |-> op, AssetData |-> AssetData, DefaultTexture |-> DefaultTexture,
     bound |-> r.bound, stages |-> r.stages]

RenderAssetThumbnailToDynamicMaterial ==
    /\ ~crashed
    /\ \E AssetData \in AssetDatas, DefaultTexture \in DefaultTextures,
          l \in PriorLocals :
        LET r == Render(AssetData, DefaultTexture, l)
        IN  /\ Apply(r)
            /\ call' = CallRecord("Render", AssetData, DefaultTexture, r)
            /\ prevRender' = IF call.op = "Render"
                             THEN [op |-> "Render", AssetData |-> call.AssetData,
                                   ImageWidth |-> ImageWidth, ImageHeight |-> ImageHeight,
                                   IsValid |-> IsValid]
                             ELSE NoCall
    /\ UNCHANGED <<engine, GlobalTagsForAssetRegistry>>

AddExistingAssetThumbnailToDynamicMaterial ==
    /\ ~crashed
    /\ \E AssetData \in AssetDatas, DefaultTexture \in DefaultTextures,
          l \in PriorLocals :
        LET r == AddExisting(AssetData, DefaultTexture, l)
        IN  /\ Apply(r)
            /\ call' = CallRecord("AddExisting", AssetData, DefaultTexture, r)
    /\ prevRender' = NoCall
    /\ UNCHANGED <<engine, GlobalTagsForAssetRegistry>>

\* The editor and the user change what is on disk and what the engine returns.
EngineChanges ==
    /\ ~crashed
    /\ \/ disk' \in SUBSET PackageNames /\ UNCHANGED <<generated, stored, allocOK>>
       \/ generated' \in GeneratedThumbnails \cup {NULL} /\ UNCHANGED <<disk, stored, allocOK>>
       \/ stored' \in StoredThumbnails \cup {NULL} /\ UNCHANGED <<disk, generated, allocOK>>
       \/ allocOK' \in BOOLEAN /\ UNCHANGED <<disk, generated, stored>>
    /\ engine' # engine
    /\ call' = NoCall
    /\ prevRender' = NoCall
    /\ UNCHANGED <<GlobalTagsForAssetRegistry, texture, ImageWidth, ImageHeight,
                   IsValid, crashed>>

----------------------------------------------------------------------------
(* Specifications *)

InitCaller ==
    /\ texture = NULL
    /\ \E l \in PriorLocals :
        /\ ImageWidth = l.ImageWidth
        /\ ImageHeight = l.ImageHeight
        /\ IsValid = l.IsValid
    /\ crashed = FALSE
    /\ call = NoCall
    /\ prevRender = NoCall

\* The thumbnail functions against every engine state.
Init ==
    /\ disk \in SUBSET PackageNames
    /\ generated \in GeneratedThumbnails \cup {NULL}
    /\ stored \in StoredThumbnails \cup {NULL}
    /\ allocOK \in BOOLEAN
    /\ GlobalTagsForAssetRegistry = {}
    /\ InitCaller

Next ==
    \/ RenderAssetThumbnailToDynamicMaterial
    \/ AddExistingAssetThumbnailToDynamicMaterial
    \/ EngineChanges

Spec == Init /\ [][Next]_vars

\* The tag registry, starting from any set of tags the engine registered.
InitTags ==
    /\ disk = {}
    /\ generated = NULL
    /\ stored = NULL
    /\ allocOK = TRUE
    /\ GlobalTagsForAssetRegistry \in SUBSET (TagNames \ {"None"})
    /\ InitCaller

NextTags == RegisterMetadataTags

SpecTags == InitTags /\ [][NextTags]_vars

----------------------------------------------------------------------------
(* Properties *)

\* The last call was RenderAssetThumbnailToDynamicMaterial; the engine state
\* is still the one the call ran against.
Rendered == call.op = "Render"

AddedExisting == call.op = "AddExisting"

Exists == PackageExists(call.AssetData)

\* The generator returned a thumbnail with width >= 1 and height >= 1.
GenUsable == generated # NULL /\ generated.w >= 1 /\ generated.h >= 1

GeneratedTexture == [kind |-> "Generated", w |-> generated.w, h |-> generated.h]

StoredTexture == [kind |-> "Cached", w |-> stored.w, h |-> stored.h]

StageNames == [i \in 1..Len(call.stages) |-> call.stages[i].stage]

Visited(stage) == \E i \in 1..Len(call.stages) : call.stages[i].stage = stage

Rank(stage) ==
    CASE stage = "TryRegenerate" -> 1
      [] stage = "TryAllocate" -> 2
      [] stage = "TryCachedFallback" -> 3
      [] stage = "UseDefault" -> 4

\* The stages were entered in chain order, none twice, none backward.
ForwardOnly ==
    \A i, j \in 1..Len(call.stages) :
        i < j => Rank(call.stages[i].stage) < Rank(call.stages[j].stage)

\* C1: every call of RenderAssetThumbnailToDynamicMaterial completes and
\* leaves the material's texture set to the generated thumbnail, the stored
\* thumbnail or the caller's default texture; no call ends the process.
C1_AlwaysCompletesBound ==
    Rendered =>
        /\ ~crashed
        /\ texture = call.bound
        /\ texture.kind \in {"Generated", "Cached", "Default"}

\* C2: when the package exists, generation gives width >= 1 and height >= 1
\* and the transient texture is allocated, the call returns IsValid = TRUE
\* with the generated dimensions, sets the generated texture and enters
\* neither the stored-thumbnail nor the default fallback.
C2_GeneratedSuccess ==
    (Rendered /\ Exists /\ GenUsable /\ allocOK) =>
        /\ ~crashed
        /\ IsValid
        /\ ImageWidth = generated.w
        /\ ImageHeight = generated.h
        /\ texture = GeneratedTexture
        /\ StageNames = <<"TryRegenerate", "TryAllocate">>

C2_Witness ==
    /\ Rendered /\ Exists /\ GenUsable /\ allocOK
    /\ generated.w # generated.h
    /\ texture = GeneratedTexture

\* C3: when the package exists and generation fails or gives a width or
\* height below 1, the call enters the stored-thumbnail fallback and never
\* the default texture; with a stored thumbnail of W x H the result is
\* {W, H, TRUE} and the material shows the imported stored thumbnail.
C3_FailedGenerationUsesStored ==
    (Rendered /\ Exists /\ ~GenUsable) =>
        /\ Visited("TryCachedFallback")
        /\ ~Visited("UseDefault")
        /\ call.bound # call.DefaultTexture
        /\ stored # NULL =>
            /\ ~crashed
            /\ IsValid
            /\ ImageWidth = stored.w
            /\ ImageHeight = stored.h
            /\ texture = StoredTexture

C3_Witness ==
    /\ Rendered /\ Exists /\ ~GenUsable /\ generated # NULL /\ allocOK
    /\ stored # NULL /\ stored.w # stored.h
    /\ texture = StoredTexture

\* C4: when the package does not exist, the call returns IsValid = FALSE,
\* sets the default texture, and returns dimensions (1,1) or the default
\* texture's dimensions, whatever the out parameters held before.
C4_MissingAssetDimensions ==
    (Rendered /\ ~Exists) =>
        /\ ~crashed
        /\ ~IsValid
        /\ texture = call.DefaultTexture
        /\ \/ ImageWidth = 1 /\ ImageHeight = 1
           \/ ImageWidth = call.DefaultTexture.w /\ ImageHeight = call.DefaultTexture.h

\* C5: AddExistingAssetThumbnailToDynamicMaterial sets the stored thumbnail
\* and its dimensions when the package exists and holds one, and in every
\* other case completes with the default texture set.
C5_AddExistingDefaultsWhenUnavailable ==
    AddedExisting =>
        /\ ~crashed
        /\ IF Exists /\ stored # NULL
           THEN /\ texture = StoredTexture
                /\ ImageWidth = stored.w
                /\ ImageHeight = stored.h
           ELSE texture = call.DefaultTexture

\* C6: two consecutive calls of RenderAssetThumbnailToDynamicMaterial with
\* the same asset against the same engine state return the same IsValid,
\* ImageWidth and ImageHeight, whatever the out parameters held before each.
C6_Idempotent ==
    (Rendered /\ prevRender.op = "Render" /\ prevRender.AssetData = call.AssetData) =>
        /\ ~crashed
        /\ IsValid = prevRender.IsValid
        /\ ImageWidth = prevRender.ImageWidth
        /\ ImageHeight = prevRender.ImageHeight

Range(list) == {list[i] : i \in 1..Len(list)}

Reverse(list) == [i \in 1..Len(list) |-> list[Len(list) + 1 - i]]

\* C8: after RegisterMetadataTags(Tags) the registry is the registry before
\* the call united with the names of Tags other than None; the registry only
\* grows, None is not added, registering the same list again changes
\* nothing, and the order of the tags does not matter.
C8_RegistryIsUnion ==
    call.op = "RegisterMetadataTags" =>
        /\ GlobalTagsForAssetRegistry = call.before \cup (Range(call.Tags) \ {"None"})
        /\ call.before \subseteq GlobalTagsForAssetRegistry
        /\ "None" \notin GlobalTagsForAssetRegistry
        /\ RegisterTags(GlobalTagsForAssetRegistry, call.Tags) = GlobalTagsForAssetRegistry
        /\ RegisterTags(call.before, Reverse(call.Tags)) = GlobalTagsForAssetRegistry

C8_Witness ==
    /\ call.op = "RegisterMetadataTags"
    /\ "None" \in Range(call.Tags)
    /\ Len(call.Tags) = 2
    /\ call.before # {}
    /\ GlobalTagsForAssetRegistry # call.before

\* C9: when the package exists and the generated thumbnail is missing or has
\* width < 1 or height < 1, the out parameters are forced to 1 x 1 and
\* IsValid to FALSE, also when the transient texture is allocated, and the
\* generated texture is not set by that call.
C9_UnusableGenerationForced ==
    (Rendered /\ Exists /\ ~GenUsable) =>
        /\ Len(call.stages) >= 2
        /\ \A i \in 1..2 :
            /\ call.stages[i].stage = <<"TryRegenerate", "TryAllocate">>[i]
            /\ call.stages[i].ImageWidth = 1
            /\ call.stages[i].ImageHeight = 1
            /\ ~call.stages[i].IsValid
        /\ ~call.stages[1].ok
        /\ call.bound.kind # "Generated"

C9_Witness ==
    /\ Rendered /\ Exists /\ ~GenUsable /\ allocOK
    /\ generated # NULL
    /\ call.stages[2].ok
    /\ stored # NULL

\* C10: at every return of RenderAssetThumbnailToDynamicMaterial IsValid is
\* FALSE exactly when the texture set is the caller's default texture, and
\* TRUE exactly when it is the generated or the stored thumbnail.
C10_ValidityMatchesTexture ==
    (Rendered /\ ~crashed) =>
        /\ ~IsValid <=> texture = call.DefaultTexture
        /\ IsValid <=> texture.kind \in {"Generated", "Cached"}

C10_Witness ==
    /\ Rendered /\ ~crashed /\ Exists
    /\ ~call.stages[2].IsValid
    /\ IsValid
    /\ texture = StoredTexture

====
